---- MODULE Spec2Model ----
(***************************************************************************)
(* Model of codedocgen: the documentation evaluator (evaluator.py) and the *)
(* credential configuration it shares with the generator (main.py).        *)
(*                                                                         *)
(* Texts are sequences of one-character strings.  A Python float is kept   *)
(* as an exact fraction [kind |-> "float", num, den]; a raised exception   *)
(* is a value whose kind is the exception's name.                          *)
(***************************************************************************)
EXTENDS Integers, Sequences, FiniteSets

VARIABLES env, openai_api_key, insts, service, last

vars == <<env, openai_api_key, insts, service, last>>

-----------------------------------------------------------------------------
(* Bounds of the model *)

\* longest free-form documentation text, in characters
MaxDocLen == 3
\* most lines of a source text
MaxLines == 2
\* most words of the first sentence of a generated long documentation
MaxWords == 42
\* most words of its second sentence
MaxSecond == 2
\* evaluator / generator instances of the process
MaxInstances == 2
\* largest weight of a component in the aggregate
WeightGrid == 1

-----------------------------------------------------------------------------
(* Texts *)

Chars == {"a", "b", "B", " ", "."}

SeqsUpTo(S, n) == UNION {[1..k -> S] : k \in 0..n}

\* str.lower() on one character
LowerChar(c) == IF c = "B" THEN "b" ELSE c

\* str.lower()
Lower(s) == [i \in 1..Len(s) |-> LowerChar(s[i])]

\* the `in` operator on strings: needle occurs in hay as a contiguous run
Contains(needle, hay) ==
    \E i \in 0..(Len(hay) - Len(needle)) :
        SubSeq(hay, i + 1, i + Len(needle)) = needle

\* str.strip(): whitespace removed at both ends
Strip(s) ==
    LET solid == {i \in 1..Len(s) : s[i] # " "}
    IN  IF solid = {} THEN <<>>
        ELSE SubSeq(s, CHOOSE i \in solid : \A j \in solid : i <= j,
                       CHOOSE i \in solid : \A j \in solid : j <= i)

\* the members of a set of positions, in increasing order
SortedSeq(S) ==
    [k \in 1..Cardinality(S) |->
        CHOOSE x \in S : Cardinality({y \in S : y < x}) = k - 1]

-----------------------------------------------------------------------------
(* Floats as exact fractions, exceptions as values *)

Float(n, d) == [kind |-> "float", num |-> n, den |-> d]
Raise(exc) == [kind |-> exc, num |-> 0, den |-> 1]

\* int / int
Divide(a, b) == IF b = 0 THEN Raise("ZeroDivisionError") ELSE Float(a, b)

FSub(x, y) == Float(x.num * y.den - y.num * x.den, x.den * y.den)
FDiv(x, y) == Float(x.num * y.den, x.den * y.num)
FLeq(x, y) == x.num * y.den <= y.num * x.den
FMax(x, y) == IF FLeq(y, x) THEN x ELSE y
FMin(x, y) == IF FLeq(x, y) THEN x ELSE y
FEq(x, y) == x.kind = "float" /\ y.kind = "float" /\ x.num * y.den = y.num * x.den

-----------------------------------------------------------------------------
(* Source texts and element extraction *)

\* A source text is a sequence of lines; a line is a keyword and the identifier
\* that follows it ("other" stands for any line that declares nothing).
DeclKeywords == {"def", "class"}

SourceLines ==
    { [kw |-> "def", name |-> <<"a">>],
      [kw |-> "def", name |-> <<"a", "B">>],
      [kw |-> "class", name |-> <<"B">>],
      [kw |-> "other", name |-> <<"a">>] }

Sources == SeqsUpTo(SourceLines, MaxLines)

\* DocEvaluator._extract_code_elements: the declared identifier of every line
\* that matches a declaration pattern, collected as a set of names.
extract_code_elements(code) ==
    {code[i].name : i \in {j \in DOMAIN code : code[j].kw \in DeclKeywords}}

-----------------------------------------------------------------------------
(* DocEvaluator.evaluate_completeness *)

\* variant: the names are matched without lower()
completeness_case_sensitive(code, documentation) ==
    LET code_elements == extract_code_elements(code)
        mentioned_count ==
            Cardinality({element \in code_elements :
                            Contains(element, documentation)})
    IN  IF code_elements = {} THEN Float(1, 1)
        ELSE Divide(mentioned_count, Cardinality(code_elements))

\* variant: a source without elements scores 0.0
completeness_empty_is_zero(code, documentation) ==
    LET code_elements == extract_code_elements(code)
        mentioned_count ==
            Cardinality({element \in code_elements :
                            Contains(Lower(element), Lower(documentation))})
    IN  IF code_elements = {} THEN Float(0, 1)
        ELSE Divide(mentioned_count, Cardinality(code_elements))

\* variant: the division is made without the test for no elements
completeness_unguarded(code, documentation) ==
    LET code_elements == extract_code_elements(code)
        mentioned_count ==
            Cardinality({element \in code_elements :
                            Contains(Lower(element), Lower(documentation))})
    IN  Divide(mentioned_count, Cardinality(code_elements))

evaluate_completeness(code, documentation) ==
    LET code_elements == extract_code_elements(code)
        mentioned_count ==
            Cardinality({element \in code_elements :
                            Contains(Lower(element), Lower(documentation))})
    IN  IF code_elements = {} THEN Float(1, 1)
        ELSE Divide(mentioned_count, Cardinality(code_elements))

-----------------------------------------------------------------------------
(* Sentence and word segmentation (nltk.tokenize) *)

\* sent_tokenize: a sentence ends at a "." that is followed by whitespace or by
\* the end of the text; sentences are stripped and empty ones are dropped.
sent_tokenize(text) ==
    LET n == Len(text)
        ends == {i \in 1..n : text[i] = "." /\ (i = n \/ text[i + 1] = " ")}
        order == SortedSeq(ends \cup {n})
        pieces == [k \in 1..Len(order) |->
                      Strip(SubSeq(text, IF k = 1 THEN 1 ELSE order[k - 1] + 1,
                                   order[k]))]
    IN  SelectSeq(pieces, LAMBDA p : p # <<>>)

\* str.split(): the whitespace-separated tokens of one sentence
split(sent) ==
    LET n == Len(sent)
        starts == {i \in 1..n : sent[i] # " " /\ (i = 1 \/ sent[i - 1] = " ")}
        stop(i) == CHOOSE j \in i..n :
                      /\ \A k \in i..j : sent[k] # " "
                      /\ j = n \/ sent[j + 1] = " "
        order == SortedSeq(starts)
    IN  [k \in 1..Len(order) |-> SubSeq(sent, order[k], stop(order[k]))]

\* the Treebank tokenizer on one sentence: whitespace-separated tokens, the
\* final period of the sentence split off as a token of its own
treebank_tokenize(sent) ==
    LET toks == split(sent)
        n == Len(toks)
        t == toks[n]
    IN  IF n = 0 THEN <<>>
        ELSE IF Len(t) >= 2 /\ t[Len(t)] = "." /\ t[Len(t) - 1] # "."
        THEN SubSeq(toks, 1, n - 1) \o <<SubSeq(t, 1, Len(t) - 1), <<".">>>>
        ELSE toks

\* word_tokenize: the tokens of every sentence of sent_tokenize, in order
RECURSIVE word_concat(_, _)
word_concat(sents, i) ==
    IF i > Len(sents) THEN <<>>
    ELSE treebank_tokenize(sents[i]) \o word_concat(sents, i + 1)

word_tokenize(text) == word_concat(sent_tokenize(text), 1)

-----------------------------------------------------------------------------
(* DocEvaluator.evaluate_clarity *)

\* the readability band of the clarity score
TargetLen == 15
Tolerance == 25

\* variant: without max(0.0, ...)
clarity_no_floor(avg_sentence_length) ==
    FSub(Float(1, 1),
         FMin(Float(1, 1),
              FDiv(FSub(avg_sentence_length, Float(TargetLen, 1)),
                   Float(Tolerance, 1))))

\* variant: without min(1.0, ...)
clarity_no_ceiling(avg_sentence_length) ==
    FSub(Float(1, 1),
         FMax(Float(0, 1),
              FDiv(FSub(avg_sentence_length, Float(TargetLen, 1)),
                   Float(Tolerance, 1))))

\* 1.0 - min(1.0, max(0.0, (avg_sentence_length - 15) / 25))
clarity_score(avg_sentence_length) ==
    FSub(Float(1, 1),
         FMin(Float(1, 1),
              FMax(Float(0, 1),
                   FDiv(FSub(avg_sentence_length, Float(TargetLen, 1)),
                        Float(Tolerance, 1)))))

\* the score of a text of n_words words in n_sentences sentences
clarity_of_counts(n_words, n_sentences) ==
    LET avg_sentence_length == Divide(n_words, n_sentences)
    IN  IF avg_sentence_length.kind # "float" THEN avg_sentence_length
        ELSE clarity_score(avg_sentence_length)

\* variant: the average is taken without the test for no sentences or words
clarity_unguarded(documentation) ==
    clarity_of_counts(Len(word_tokenize(documentation)),
                      Len(sent_tokenize(documentation)))

evaluate_clarity(documentation) ==
    LET sentences == sent_tokenize(documentation)
        words == word_tokenize(documentation)
    IN  IF sentences = <<>> \/ words = <<>> THEN Float(0, 1)
        ELSE clarity_of_counts(Len(words), Len(sentences))

-----------------------------------------------------------------------------
(* Documentation texts the evaluations are applied to *)

ShortDocs == SeqsUpTo(Chars, MaxDocLen)

\* "a a ... a. " with n words; the empty text for n = 0
WordRun(n) == [i \in 1..(2 * n - 1) |-> IF i % 2 = 1 THEN "a" ELSE " "]

Sentence(n) == IF n = 0 THEN <<>> ELSE WordRun(n) \o <<".", " ">>

LongDocs == {Sentence(n) \o Sentence(m) : n \in 0..MaxWords, m \in 0..MaxSecond}

Docs == ShortDocs \cup LongDocs

-----------------------------------------------------------------------------
(* DocEvaluator.evaluate_accuracy *)

\* resolution of the similarity scores the external capability may return
ScoreGrid == 2

NotComputable == [kind |-> "not computable", num |-> 0, den |-> 1]

ServiceStates == {"available", "unavailable"}

\* The scoring body without a reference: the sentinel when the external
\* capability is unavailable; otherwise the sentinel or a similarity score
\* obtained from the capability.
accuracy_body(code, documentation, svc) ==
    IF svc = "unavailable" THEN {NotComputable}
    ELSE {NotComputable} \cup {Float(k, ScoreGrid) : k \in 0..ScoreGrid}

\* def evaluate_accuracy(self, code, documentation): the parameters are the
\* source code and the documentation; a call that passes a further
\* (reference) argument does not bind and raises TypeError.
evaluate_accuracy(code, documentation, has_reference, reference, svc) ==
    IF has_reference THEN {Raise("TypeError")}
    ELSE accuracy_body(code, documentation, svc)

-----------------------------------------------------------------------------
(* The evaluation report: evaluate(source, documentation, reference?) *)

FAdd(x, y) == Float(x.num * y.den + y.num * x.den, x.den * y.den)
FScale(k, x) == Float(k * x.num, x.den)

\* the configured weights of the three components: not all zero, and taken
\* relative to their total
Weights ==
    {w \in [completeness : 0..WeightGrid, clarity : 0..WeightGrid,
            accuracy : 0..WeightGrid] :
        w.completeness + w.clarity + w.accuracy > 0}

\* a component's contribution: a score counts, a sentinel contributes nothing
Term(k, score) == IF score.kind = "float" THEN FScale(k, score) ELSE Float(0, 1)

\* the weighted sum of the three components
weighted_sum(w, completeness, clarity, accuracy) ==
    FDiv(FAdd(Term(w.completeness, completeness),
              FAdd(Term(w.clarity, clarity), Term(w.accuracy, accuracy))),
         Float(w.completeness + w.clarity + w.accuracy, 1))

clamp01(x) == FMin(Float(1, 1), FMax(Float(0, 1), x))

\* the report: the three components as they were returned, and the aggregate
build_report(w, completeness, clarity, accuracy) ==
    [kind |-> "report", weights |-> w, completeness |-> completeness,
     clarity |-> clarity, accuracy |-> accuracy,
     aggregate |-> clamp01(weighted_sum(w, completeness, clarity, accuracy))]

\* evaluate: the three scorers are invoked and the report assembled; an
\* exception of a scorer ends the evaluation
evaluate(code, documentation, has_reference, reference, svc, w) ==
    {IF completeness.kind # "float" THEN completeness
     ELSE IF clarity.kind # "float" THEN clarity
     ELSE IF accuracy.kind \notin {"float", "not computable"} THEN accuracy
     ELSE build_report(w, completeness, clarity, accuracy) :
        completeness \in {evaluate_completeness(code, documentation)},
        clarity \in {evaluate_clarity(documentation)},
        accuracy \in evaluate_accuracy(code, documentation, has_reference,
                                       reference, svc)}

-----------------------------------------------------------------------------
(* Credential configuration: openai.api_key, set by both constructors *)

None == "<None>"

\* openai.api_key when the library is imported: OPENAI_API_KEY, None if unset
imported_api_key(environ) == environ

\* Python truthiness of an optional string
Truthy(v) == v # None /\ v # ""

ApiKeyArgs == {None, "", "k1", "k2"}
EnvValues == {None, "", "kE"}
DEFAULT_MODEL == "gpt-4"
ModelArgs == {DEFAULT_MODEL, "gpt-3.5-turbo"}
OUTPUT_FORMATS == {"markdown", "html", "pdf"}
OutputFormatArgs == {"markdown", "HTML", "docx"}

LowerFormat(f) == IF f = "HTML" THEN "html" ELSE f

Instances == 1..MaxInstances

NoInstance ==
    [kind |-> "none", model |-> None, api_key |-> None,
     credential |-> None, warned |-> FALSE]

\* variant: without a credential the process-wide one is reset
configure_overwrites_with_none(api_key, environ, current) ==
    IF Truthy(api_key) THEN [key |-> api_key, warned |-> FALSE]
    ELSE IF Truthy(environ) THEN [key |-> environ, warned |-> FALSE]
    ELSE [key |-> None, warned |-> TRUE]

\* "Configura a API key": the argument, else OPENAI_API_KEY, else a warning
\* and the process-wide credential left as it is
configure_api_key(api_key, environ, current) ==
    IF Truthy(api_key) THEN [key |-> api_key, warned |-> FALSE]
    ELSE IF Truthy(environ) THEN [key |-> environ, warned |-> FALSE]
    ELSE [key |-> current, warned |-> TRUE]

\* the record of the operation performed last
\* (svc is the state of the external capability when the operation ran)
Call(op, svc, inst, code, documentation, has_reference, reference, used_key, result) ==
    [op |-> op, svc |-> svc, inst |-> inst, code |-> code,
     documentation |-> documentation, has_reference |-> has_reference,
     reference |-> reference, used_key |-> used_key, result |-> result]

NoCall == Call("none", "available", 0, <<>>, <<>>, FALSE, <<>>, None, Raise("none"))

Returned == [kind |-> "returned", num |-> 0, den |-> 1]

\* Calls are synchronous: an operation starts when none is in progress, and
\* Return hands its result (or exception) to the caller.
Idle == last.op = "none"

Return ==
    /\ ~Idle
    /\ last' = NoCall
    /\ UNCHANGED <<env, openai_api_key, insts, service>>

\* DocEvaluator.__init__(model, api_key)
ConstructEvaluator(i, model, api_key) ==
    /\ Idle
    /\ insts[i].kind = "none"
    /\ LET cfg == configure_api_key(api_key, env, openai_api_key)
       IN  /\ openai_api_key' = cfg.key
           /\ insts' = [insts EXCEPT ![i] =
                   [kind |-> "DocEvaluator", model |-> model, api_key |-> api_key,
                    credential |-> cfg.key, warned |-> cfg.warned]]
    /\ last' = Call("DocEvaluator", service, i, <<>>, <<>>, FALSE, <<>>, None, Returned)
    /\ UNCHANGED <<env, service>>

\* DocGenerator.__init__(model, temperature, api_key, output_format): an
\* unsupported format raises ValueError before the credential is touched
\* (temperature and the tokenizer are kept by the instance and change nothing
\* that is shared)
ConstructGenerator(i, model, api_key, output_format) ==
    /\ Idle
    /\ insts[i].kind = "none"
    /\ IF LowerFormat(output_format) \notin OUTPUT_FORMATS
       THEN /\ last' = Call("DocGenerator", service, i, <<>>, <<>>, FALSE, <<>>, None,
                            Raise("ValueError"))
            /\ UNCHANGED <<openai_api_key, insts>>
       ELSE LET cfg == configure_api_key(api_key, env, openai_api_key)
            IN  /\ openai_api_key' = cfg.key
                /\ insts' = [insts EXCEPT ![i] =
                        [kind |-> "DocGenerator", model |-> model,
                         api_key |-> api_key, credential |-> cfg.key,
                         warned |-> cfg.warned]]
                /\ last' = Call("DocGenerator", service, i, <<>>, <<>>, FALSE, <<>>, None,
                                Returned)
    /\ UNCHANGED <<env, service>>

\* DocGenerator.generate: the request to openai.ChatCompletion.create is made
\* with the process-wide credential of that moment; any failure is re-raised.
Generate(i) ==
    /\ Idle
    /\ insts[i].kind = "DocGenerator"
    /\ last' = Call("generate", service, i, <<>>, <<>>, FALSE, <<>>, openai_api_key,
                    IF ~Truthy(openai_api_key) \/ service = "unavailable"
                    THEN Raise("Exception") ELSE Returned)
    /\ UNCHANGED <<env, openai_api_key, insts, service>>

\* the external capability becomes reachable or unreachable (between calls:
\* an operation sees one state of the capability)
ServiceChanges ==
    /\ Idle
    /\ service' \in ServiceStates \ {service}
    /\ UNCHANGED <<env, openai_api_key, insts, last>>

-----------------------------------------------------------------------------
(* The evaluations as operations of a constructed evaluator *)

AccuracySources == SeqsUpTo(SourceLines, 1)
AccuracyDocs == SeqsUpTo(Chars, 1)

\* (element names are at most two characters long, so the free-form texts hold
\* every way a name can occur in a documentation)
EvaluateCompleteness(i) ==
    /\ Idle
    /\ insts[i].kind = "DocEvaluator"
    /\ \E code \in Sources, documentation \in ShortDocs :
          last' = Call("evaluate_completeness", service, i, code, documentation, FALSE, <<>>,
                       None, evaluate_completeness(code, documentation))
    /\ UNCHANGED <<env, openai_api_key, insts, service>>

EvaluateClarity(i) ==
    /\ Idle
    /\ insts[i].kind = "DocEvaluator"
    /\ \E documentation \in Docs :
          last' = Call("evaluate_clarity", service, i, <<>>, documentation, FALSE, <<>>,
                       None, evaluate_clarity(documentation))
    /\ UNCHANGED <<env, openai_api_key, insts, service>>

\* (the short texts, sentences just past the readability target and sentences
\* past the end of the band)
EvaluateDocs ==
    AccuracyDocs
        \cup {Sentence(n) : n \in TargetLen..(TargetLen + MaxSecond)}
        \cup {Sentence(n) : n \in (MaxWords - MaxSecond)..MaxWords}

\* evaluate(source, documentation, reference?) of the evaluator
Evaluate(i) ==
    /\ Idle
    /\ insts[i].kind = "DocEvaluator"
    /\ \E code \in AccuracySources, documentation \in EvaluateDocs,
          has_reference \in BOOLEAN, weights \in Weights :
          \E r \in evaluate(code, documentation, has_reference, documentation,
                            service, weights) :
              last' = Call("evaluate", service, i, code, documentation,
                           has_reference,
                           IF has_reference THEN documentation ELSE <<>>,
                           None, r)
    /\ UNCHANGED <<env, openai_api_key, insts, service>>

EvaluateAccuracy(i) ==
    /\ Idle
    /\ insts[i].kind = "DocEvaluator"
    /\ \E code \in AccuracySources, documentation \in AccuracyDocs,
          has_reference \in BOOLEAN, reference \in AccuracyDocs :
          /\ ~has_reference => reference = <<>>
          /\ \E r \in evaluate_accuracy(code, documentation, has_reference,
                                        reference, service) :
                last' = Call("evaluate_accuracy", service, i, code, documentation,
                             has_reference, reference, None, r)
    /\ UNCHANGED <<env, openai_api_key, insts, service>>

-----------------------------------------------------------------------------
(* Spec: the evaluations of one evaluator, constructed as DocEvaluator() *)

Init ==
    /\ env \in EnvValues
    /\ service \in ServiceStates
    /\ LET cfg == configure_api_key(None, env, imported_api_key(env))
       IN  /\ openai_api_key = cfg.key
           /\ insts = [i \in Instances |->
                   IF i = 1
                   THEN [kind |-> "DocEvaluator", model |-> DEFAULT_MODEL,
                         api_key |-> None, credential |-> cfg.key,
                         warned |-> cfg.warned]
                   ELSE NoInstance]
    /\ last = NoCall

Next ==
    \/ \E i \in Instances : EvaluateCompleteness(i)
    \/ \E i \in Instances : EvaluateClarity(i)
    \/ \E i \in Instances : EvaluateAccuracy(i)
    \/ \E i \in Instances : Evaluate(i)
    \/ ServiceChanges
    \/ Return

Spec == Init /\ [][Next]_vars

-----------------------------------------------------------------------------
(* SpecConfig: constructions and generations of several instances, in any   *)
(* order, in one process                                                    *)

InitConfig ==
    /\ env \in EnvValues
    /\ service \in ServiceStates
    /\ openai_api_key = imported_api_key(env)
    /\ insts = [i \in Instances |-> NoInstance]
    /\ last = NoCall

NextConfig ==
    \/ \E i \in Instances, model \in ModelArgs, api_key \in ApiKeyArgs :
          ConstructEvaluator(i, model, api_key)
    \/ \E i \in Instances, model \in ModelArgs, api_key \in ApiKeyArgs,
          output_format \in OutputFormatArgs :
          ConstructGenerator(i, model, api_key, output_format)
    \/ \E i \in Instances : Generate(i)
    \/ ServiceChanges
    \/ Return

SpecConfig == InitConfig /\ [][NextConfig]_vars

-----------------------------------------------------------------------------
(* Properties of the evaluations (checked under Spec) *)

\* c and d are the same letter up to case
SameLetter(c, d) == c = d \/ {c, d} = {"b", "B"}

\* name occurs in text as a case-insensitive substring
OccursIgnoringCase(name, text) ==
    \E p \in 0..(Len(text) - Len(name)) :
        \A k \in 1..Len(name) : SameLetter(name[k], text[p + k])

\* the elements of E that the documentation mentions
Matched(E, documentation) == {e \in E : OccursIgnoringCase(e, documentation)}

\* number of sentences / of words of the documentation of the last call
NSentences == Len(sent_tokenize(last.documentation))
NWords == Len(word_tokenize(last.documentation))

\* C1: with a non-empty element set E, evaluate_completeness returns
\* |matched| / |E|, matched being the elements of E whose name occurs in the
\* documentation as a case-insensitive substring; with two elements of which
\* exactly one is mentioned the result is 0.5.
C1_CompletenessIsCoverage ==
    last.op = "evaluate_completeness" =>
        LET E == extract_code_elements(last.code)
            matched == Matched(E, last.documentation)
        IN  E # {} =>
              /\ last.result.kind = "float"
              /\ last.result.den > 0
              /\ last.result.num * Cardinality(E)
                    = Cardinality(matched) * last.result.den
              /\ (Cardinality(E) = 2 /\ Cardinality(matched) = 1)
                    => 2 * last.result.num = last.result.den

\* C1 witness: two elements, exactly one of them mentioned, and that one only
\* up to case: the result is one half.
C1_Witness ==
    /\ last.op = "evaluate_completeness"
    /\ LET E == extract_code_elements(last.code)
       IN  /\ Cardinality(E) = 2
           /\ Cardinality(Matched(E, last.documentation)) = 1
           /\ \E e \in E : /\ OccursIgnoringCase(e, last.documentation)
                           /\ ~Contains(e, last.documentation)
    /\ FEq(last.result, Float(1, 2))

\* C2: a source from which no element is extracted has completeness exactly
\* 1.0, whatever the documentation, the empty documentation included.
C2_NoElementsIsComplete ==
    (last.op = "evaluate_completeness" /\ extract_code_elements(last.code) = {})
        => last.result = Float(1, 1)

\* C2 witness: a source with lines but no declaration, scored against the
\* empty documentation.
C2_Witness ==
    /\ last.op = "evaluate_completeness"
    /\ last.code # <<>>
    /\ extract_code_elements(last.code) = {}
    /\ last.documentation = <<>>
    /\ last.result = Float(1, 1)

\* C3: evaluate_clarity returns 0.0 when the documentation has no sentence or
\* no word, in particular for the empty string, and nothing is divided by the
\* sentence count then (no ZeroDivisionError).
C3_ClarityOfNothingIsZero ==
    last.op = "evaluate_clarity" =>
        /\ (NSentences = 0 \/ NWords = 0) => last.result = Float(0, 1)
        /\ last.documentation = <<>> => last.result = Float(0, 1)

\* C3 witness: the clarity of the empty string was computed and is 0.0.
C3_Witness ==
    /\ last.op = "evaluate_clarity"
    /\ last.documentation = <<>>
    /\ last.result = Float(0, 1)

\* C4: a documentation with at least one sentence and one word whose average
\* sentence length is at most 15 has clarity exactly 1.0, however short its
\* sentences are.
C4_ShortSentencesAreClear ==
    last.op = "evaluate_clarity" =>
        \A s \in {NSentences}, w \in {NWords} :
            (s >= 1 /\ w >= 1 /\ w <= 15 * s)
                => /\ last.result.kind = "float"
                   /\ last.result.den > 0
                   /\ last.result.num = last.result.den

\* C4 witness: a documentation of several sentences averaging at most two
\* words scored 1.0.
C4_Witness ==
    /\ last.op = "evaluate_clarity"
    /\ NSentences >= 2
    /\ NWords <= 2 * NSentences
    /\ FEq(last.result, Float(1, 1))

\* C5: an average sentence length of at least 40 gives clarity 0.0; between 15
\* and 40 the clarity is 1 - (a - 15) / 25, and no documentation with a longer
\* average in that range scores higher.
C5_LongSentencesDecay ==
    last.op = "evaluate_clarity" =>
        \A s \in {NSentences}, w \in {NWords} :
            (s >= 1 /\ w >= 1) =>
                /\ last.result.kind = "float"
                /\ last.result.den > 0
                /\ w >= 40 * s => last.result.num = 0
                /\ (15 * s <= w /\ w <= 40 * s) =>
                      /\ last.result.num * 25 * s = last.result.den * (40 * s - w)
                      /\ \A w2 \in 1..(MaxWords + MaxSecond + 2), s2 \in 1..MaxDocLen :
                            (w * s2 <= w2 * s /\ w2 <= 40 * s2)
                                => FLeq(clarity_of_counts(w2, s2), last.result)

\* C5 witness: a documentation averaging more than 40 words a sentence scored
\* 0.0.
C5_Witness ==
    /\ last.op = "evaluate_clarity"
    /\ NSentences >= 1
    /\ NWords > 40 * NSentences
    /\ FEq(last.result, Float(0, 1))

\* C6: evaluate_completeness and evaluate_clarity always return a number in
\* [0, 1]: never an exception, the numerator (the matched count) never above
\* the denominator, and a defined default where the metric is undefined.
C6_ScoresAreInRange ==
    last.op \in {"evaluate_completeness", "evaluate_clarity"} =>
        /\ last.result.kind = "float"
        /\ last.result.den > 0
        /\ 0 <= last.result.num
        /\ last.result.num <= last.result.den
        /\ (last.op = "evaluate_completeness"
               /\ extract_code_elements(last.code) # {})
              => last.result.num <= Cardinality(extract_code_elements(last.code))

\* C6 witness: a non-empty text without any sentence (whitespace only) got a
\* number.
C6_Witness ==
    /\ last.op = "evaluate_clarity"
    /\ last.documentation # <<>>
    /\ NSentences = 0
    /\ last.result.kind = "float"

\* C9: without a reference and with the external capability unavailable,
\* evaluate_accuracy returns the "not computable" sentinel; and it accepts an
\* optional reference argument.
C9_AccuracyTakesReference ==
    last.op = "evaluate_accuracy" =>
        /\ last.has_reference => last.result.kind # "TypeError"
        /\ (~last.has_reference /\ last.svc = "unavailable")
              => last.result = NotComputable

\* C10: evaluate_accuracy(source, d, reference = d) returns 1.0.
C10_IdenticalReferenceIsAccurate ==
    (/\ last.op = "evaluate_accuracy"
     /\ last.has_reference
     /\ last.reference = last.documentation)
        => FEq(last.result, Float(1, 1))

C12_ServiceFailureNeverAborts ==
    /\ last.op \in {"evaluate_completeness", "evaluate_clarity"}
          => last.result.kind = "float"
    /\ (last.op = "evaluate_accuracy" /\ last.has_reference
            /\ last.svc = "unavailable")
          => last.result.kind = "float"

-----------------------------------------------------------------------------
(* Properties of the credential configuration (checked under SpecConfig) *)

\* C7: constructing an evaluator with no api_key and no OPENAI_API_KEY does
\* not complete normally: no evaluator exists that was constructed without a
\* credential.
C7_MissingCredentialRaises ==
    \A i \in Instances :
        ~(/\ insts[i].kind = "DocEvaluator"
          /\ ~Truthy(insts[i].api_key)
          /\ ~Truthy(env))

\* C13: a construction (DocEvaluator or DocGenerator) that completes sets the
\* process-wide credential to its api_key argument when that is non-empty,
\* whatever OPENAI_API_KEY holds; otherwise to OPENAI_API_KEY when that is set
\* and non-empty; otherwise it leaves the credential as it was and only warns.
C13_CredentialPrecedence ==
    [][\A i \in Instances :
          (insts[i].kind = "none" /\ insts'[i].kind # "none") =>
              /\ Truthy(insts'[i].api_key) =>
                    /\ openai_api_key' = insts'[i].api_key
                    /\ ~insts'[i].warned
              /\ (~Truthy(insts'[i].api_key) /\ Truthy(env)) =>
                    /\ openai_api_key' = env
                    /\ ~insts'[i].warned
              /\ (~Truthy(insts'[i].api_key) /\ ~Truthy(env)) =>
                    /\ openai_api_key' = openai_api_key
                    /\ insts'[i].warned
              /\ last'.result = Returned]_vars

\* C13 witness: a construction without any credential has just completed with
\* a warning, and the credential that an earlier construction of the other
\* kind of instance set is still in effect.
C13_Witness ==
    \E i, j \in Instances :
        /\ insts[i].kind = "DocGenerator"
        /\ Truthy(insts[i].api_key)
        /\ insts[j].kind = "DocEvaluator"
        /\ ~Truthy(insts[j].api_key)
        /\ ~Truthy(env)
        /\ insts[j].warned
        /\ last.op = "DocEvaluator"
        /\ last.inst = j
        /\ openai_api_key = insts[i].api_key

\* C8: once an instance has been constructed, no operation changes the
\* process-wide credential.
C8_CredentialSetOnce ==
    [][(\E i \in Instances : insts[i].kind # "none")
          => openai_api_key' = openai_api_key]_vars

====
